---- MODULE Spec2Model ----
(***************************************************************************)
(* Transaction intake and validation pipeline of the payment backend.      *)
(*                                                                         *)
(* Two revisions of the server are modelled side by side:                  *)
(*   "hardened" : src/server.js           (ApiError, wrap, setImmediate)   *)
(*   "legacy"   : src/unnamed/part_000    (inline try/catch, static list)  *)
(* together with the browser flows of src/public/js/payment.js that call   *)
(* POST /save-transaction after a PayPal capture.                          *)
(*                                                                         *)
(* Strings the validators inspect are sequences of one-character strings,  *)
(* so that trim, escape, isEmail, isNumeric and normalizeEmail are         *)
(* computed character by character.                                        *)
(***************************************************************************)
EXTENDS Integers, Sequences, FiniteSets, TLC

VARIABLES
  rev,          \* which server revision is running
  uniqueTx,     \* does the transactions table carry UNIQUE(transaction_id)
  reqs,         \* requests received so far, in arrival order
  rows,         \* the transactions table, in insertion order
  insertedBy,   \* history: insertedBy[k] is the request whose INSERT made rows[k]
  mails,        \* notifications: scheduled, handed to the transport, completed
  logs,         \* what the winston logger was given
  captures,     \* PayPal captures the browser flows reported as successful
  clicks,       \* clicks on a pay button, and how far each one got
  catalog,      \* the rows of the services table
  page,         \* the page initPaymentHandlers runs on: amount field, #pay-btn, its text and spinner
  cluster       \* the master's view of its workers: their states, exit events not yet handled

vars == <<rev, uniqueTx, reqs, rows, insertedBy, mails, logs, captures, clicks, catalog, cluster,
          page>>

----------------------------------------------------------------------------
(* Bounds of the model                                                      *)

\* requests per run of Spec, where requests race each other
MaxReqs == 2

\* requests per run of SpecInputs, where the request bodies vary widely
MaxInputReqs == 1

\* PayPal captures per run
MaxCaptures == 1

\* clicks on a pay button
MaxClicks == 2

\* os.cpus().length of the machine
NumCPUs == 2

\* worker exits in a run
MaxExits == 3

----------------------------------------------------------------------------
(* JavaScript values that are not strings                                   *)

\* a field that is missing from req.body
Undefined == <<"undefined">>

\* SQL NULL
Null == <<"NULL">>

\* the boolean false (what validator's normalizeEmail returns when it gives up)
False == <<"false">>

IsString(v) == v \notin {Undefined, Null, False}

----------------------------------------------------------------------------
(* Characters                                                               *)

LowerSeq == <<"a","b","c","d","e","f","g","h","i","j","k","l","m",
              "n","o","p","q","r","s","t","u","v","w","x","y","z">>

UpperSeq == <<"A","B","C","D","E","F","G","H","I","J","K","L","M",
              "N","O","P","Q","R","S","T","U","V","W","X","Y","Z">>

Digits == {"0","1","2","3","4","5","6","7","8","9"}

Lowers == {LowerSeq[i] : i \in 1..26}

Uppers == {UpperSeq[i] : i \in 1..26}

Letters == Lowers \cup Uppers

\* characters the emailUserPart pattern of isEmail admits besides letters and
\* digits (those of them the inputs use)
EmailUserSymbols == {"&", "'", "+", "-", "/", "_", "="}

\* String.prototype.trim strips these (only the ones the inputs use)
Whitespace == {" ", "\t", "\n"}

ToLowerChar(c) ==
  IF c \in Uppers THEN LowerSeq[CHOOSE i \in 1..26 : UpperSeq[i] = c] ELSE c

RECURSIVE ToLower(_)
ToLower(s) ==
  IF s = <<>> THEN <<>> ELSE <<ToLowerChar(Head(s))>> \o ToLower(Tail(s))

----------------------------------------------------------------------------
(* Generic sequence helpers                                                 *)

RECURSIVE Flatten(_)
Flatten(ss) == IF ss = <<>> THEN <<>> ELSE Head(ss) \o Flatten(Tail(ss))

\* positions of character c in s
Positions(s, c) == {i \in 1..Len(s) : s[i] = c}

Min(S) == CHOOSE x \in S : \A y \in S : x <= y

Max(S) == CHOOSE x \in S : \A y \in S : x >= y

\* s.split(c): the pieces of s between occurrences of c
RECURSIVE Split(_, _)
Split(s, c) ==
  IF Positions(s, c) = {} THEN <<s>>
  ELSE LET p == Min(Positions(s, c))
       IN  <<SubSeq(s, 1, p - 1)>> \o Split(SubSeq(s, p + 1, Len(s)), c)

\* parts.join(c)
RECURSIVE Join(_, _)
Join(parts, c) ==
  IF parts = <<>> THEN <<>>
  ELSE IF Len(parts) = 1 THEN parts[1]
  ELSE parts[1] \o <<c>> \o Join(Tail(parts), c)

\* the sequence s without the characters in set C
RECURSIVE Without(_, _)
Without(s, C) ==
  IF s = <<>> THEN <<>>
  ELSE IF Head(s) \in C THEN Without(Tail(s), C)
  ELSE <<Head(s)>> \o Without(Tail(s), C)

AllIn(s, C) == \A i \in 1..Len(s) : s[i] \in C

----------------------------------------------------------------------------
(* The validators and sanitizers the express-validator chains name.        *)
(* A standard validator sees toString(value): a missing field is "".       *)

StrOf(v) == IF IsString(v) THEN v ELSE <<>>

\* .trim(): whitespace stripped from both ends
RECURSIVE TrimLeft(_)
TrimLeft(s) ==
  IF s # <<>> /\ Head(s) \in Whitespace THEN TrimLeft(Tail(s)) ELSE s

RECURSIVE TrimRight(_)
TrimRight(s) ==
  IF s # <<>> /\ s[Len(s)] \in Whitespace
  THEN TrimRight(SubSeq(s, 1, Len(s) - 1)) ELSE s

trim(s) == TrimRight(TrimLeft(s))

\* .escape(): HTML entities for & < > " ' /
EscapeChar(c) ==
  CASE c = "&"  -> <<"&","a","m","p",";">>
    [] c = "<"  -> <<"&","l","t",";">>
    [] c = ">"  -> <<"&","g","t",";">>
    [] c = "\"" -> <<"&","q","u","o","t",";">>
    [] c = "'"  -> <<"&","#","x","2","7",";">>
    [] c = "/"  -> <<"&","#","x","2","F",";">>
    [] OTHER    -> <<c>>

RECURSIVE escape(_)
escape(s) == IF s = <<>> THEN <<>> ELSE EscapeChar(Head(s)) \o escape(Tail(s))

\* .notEmpty(): the string has at least one character (whitespace counts)
notEmpty(s) == Len(s) > 0

\* .isNumeric(): /^[+-]?([0-9]*[.])?[0-9]+$/
isNumeric(s) ==
  LET body == IF s # <<>> /\ Head(s) \in {"+", "-"} THEN Tail(s) ELSE s
      dots == Positions(body, ".")
  IN  IF dots = {}
      THEN body # <<>> /\ AllIn(body, Digits)
      ELSE LET p == Min(dots)
               int == SubSeq(body, 1, p - 1)
               frac == SubSeq(body, p + 1, Len(body))
           IN  AllIn(int, Digits) /\ frac # <<>> /\ AllIn(frac, Digits)

\* .isLength({ min: 3, max: 3 })
isLength3(s) == Len(s) = 3

\* isFQDN(domain) with require_tld: at least two labels, an alphabetic
\* top-level label of two or more letters, every label non-empty, of letters,
\* digits and hyphens, with no hyphen at either end
isFQDN(d) ==
  LET parts == Split(d, ".")
      tld == parts[Len(parts)]
  IN  /\ Len(parts) >= 2
      /\ Len(tld) >= 2 /\ AllIn(tld, Letters)
      /\ \A i \in 1..Len(parts) :
           /\ parts[i] # <<>>
           /\ AllIn(parts[i], Letters \cup Digits \cup {"-"})
           /\ parts[i][1] # "-"
           /\ parts[i][Len(parts[i])] # "-"

\* .isEmail(): the text after the last @ is a domain name, the text before
\* it is dot-separated runs of the characters emailUserPart admits
isEmail(s) ==
  LET parts == Split(s, "@")
      domain == parts[Len(parts)]
      user == Join(SubSeq(parts, 1, Len(parts) - 1), "@")
      userParts == Split(user, ".")
  IN  /\ isFQDN(domain)
      /\ \A i \in 1..Len(userParts) :
           /\ userParts[i] # <<>>
           /\ AllIn(userParts[i], Letters \cup Digits \cup EmailUserSymbols)

\* replace(/\.+/g, dotsReplacer): a dot standing alone is dropped, a run of
\* two or more dots is kept
RemoveSingleDots(s) ==
  LET keep(i) == \/ s[i] # "."
                 \/ (i > 1 /\ s[i - 1] = ".")
                 \/ (i < Len(s) /\ s[i + 1] = ".")
      F[i \in 0..Len(s)] ==
        IF i = 0 THEN <<>>
        ELSE IF keep(i) THEN Append(F[i - 1], s[i]) ELSE F[i - 1]
  IN  F[Len(s)]

GmailDomain == <<"g","m","a","i","l",".","c","o","m">>

GooglemailDomain == <<"g","o","o","g","l","e","m","a","i","l",".","c","o","m">>

\* .normalizeEmail() with its default options: the domain is lower-cased; a
\* Gmail address loses its +subaddress and its dots, is lower-cased and moved
\* to gmail.com, and the result is false when nothing is left of its local
\* part; any other address has its local part lower-cased
normalizeEmail(s) ==
  LET parts == Split(s, "@")
      domain == ToLower(parts[Len(parts)])
      user == Join(SubSeq(parts, 1, Len(parts) - 1), "@")
  IN  IF domain \in {GmailDomain, GooglemailDomain}
      THEN LET u1 == Split(user, "+")[1]
               u2 == RemoveSingleDots(u1)
           IN  IF u2 = <<>> THEN False
               ELSE ToLower(u2) \o <<"@">> \o GmailDomain
      ELSE ToLower(user) \o <<"@">> \o domain

----------------------------------------------------------------------------
(* Numbers as the browser scripts read and write them.  A number is NaN or  *)
(* a count of hundredths; the texts the model types carry at most two       *)
(* fractional digits, so the count is exact and toFixed(2) never rounds.    *)

NaN == [nan |-> TRUE, h |-> 0]

Num(h) == [nan |-> FALSE, h |-> h]

DigitVal(c) == CHOOSE n \in 0..9 : ToString(n) = c

\* the digits a text starts with
RECURSIVE DigitPrefix(_)
DigitPrefix(s) ==
  IF s # <<>> /\ Head(s) \in Digits THEN <<Head(s)>> \o DigitPrefix(Tail(s))
  ELSE <<>>

RECURSIVE DigitsToInt(_)
DigitsToInt(ds) ==
  IF ds = <<>> THEN 0
  ELSE 10 * DigitsToInt(SubSeq(ds, 1, Len(ds) - 1)) + DigitVal(ds[Len(ds)])

\* the longest decimal literal a text starts with: sign, digits, point,
\* digits, with at least one digit; len is 0 when there is none
DecimalPrefix(s) ==
  LET signed == s # <<>> /\ Head(s) \in {"+", "-"}
      body == IF signed THEN Tail(s) ELSE s
      int == DigitPrefix(body)
      after == SubSeq(body, Len(int) + 1, Len(body))
      pointed == after # <<>> /\ Head(after) = "."
      frac == IF pointed THEN DigitPrefix(Tail(after)) ELSE <<>>
      usePoint == pointed /\ (int # <<>> \/ frac # <<>>)
      f2 == SubSeq(frac \o <<"0", "0">>, 1, 2)
      mag == 100 * DigitsToInt(int) + DigitsToInt(f2)
  IN  IF int = <<>> /\ frac = <<>>
      THEN [len |-> 0, num |-> NaN]
      ELSE [len |-> (IF signed THEN 1 ELSE 0) + Len(int)
                      + (IF usePoint THEN 1 + Len(frac) ELSE 0),
            num |-> Num(IF signed /\ Head(s) = "-" THEN 0 - mag ELSE mag)]

\* parseFloat(text): leading blanks skipped, the longest decimal prefix
\* read, whatever follows it ignored
parseFloat(s) == DecimalPrefix(TrimLeft(s)).num

\* Number(text): blanks trimmed, "" is 0, and the whole text must be a
\* decimal literal
Number(s) ==
  LET t == trim(s)
      d == DecimalPrefix(t)
  IN  IF t = <<>> THEN Num(0)
      ELSE IF d.len = Len(t) THEN d.num ELSE NaN

\* text.replace(',', '.'): the first comma only
ReplaceComma(s) ==
  LET cs == Positions(s, ",")
  IN  IF cs = {} THEN s ELSE [s EXCEPT ![Min(cs)] = "."]

RECURSIVE NatToText(_)
NatToText(n) ==
  IF n < 10 THEN <<ToString(n)>>
  ELSE NatToText(n \div 10) \o <<ToString(n % 10)>>

\* num.toFixed(2) of a number that is not negative
toFixed2(n) ==
  NatToText(n.h \div 100) \o <<".">>
    \o <<ToString((n.h % 100) \div 10), ToString(n.h % 10)>>

\* JSON.stringify of a number that is not negative: no trailing zeros, no
\* point for a whole number
JsonNumber(n) ==
  LET whole == NatToText(n.h \div 100)
      c == n.h % 100
  IN  IF c = 0 THEN whole
      ELSE IF c % 10 = 0 THEN whole \o <<".", ToString(c \div 10)>>
      ELSE whole \o <<".", ToString(c \div 10), ToString(c % 10)>>

----------------------------------------------------------------------------
(* Request bodies                                                           *)

Fields == {"transaction_id", "payer_name", "payer_email", "amount",
           "currency", "payment_status", "service_type", "name"}

\* a JSON body with none of the fields
EmptyBody == [f \in Fields |-> Undefined]

\* variant of SaveChainHardened whose amount check also wants the amount to
\* be above zero
SaveChainHardenedPositive(raw) ==
  LET tid == trim(StrOf(raw.transaction_id))
      nam == trim(StrOf(raw.payer_name))
      eml == trim(StrOf(raw.payer_email))
      amt == trim(StrOf(raw.amount))
      opt(f) == IF raw[f] = Undefined THEN Undefined
                ELSE escape(trim(StrOf(raw[f])))
      errs ==
        (IF notEmpty(tid) THEN {} ELSE
           {[param |-> "transaction_id", msg |-> "Transaction ID is required."]})
        \cup (IF notEmpty(nam) THEN {} ELSE
           {[param |-> "payer_name", msg |-> "Payer name is required."]})
        \cup (IF isEmail(eml) THEN {} ELSE
           {[param |-> "payer_email", msg |-> "A valid email is required."]})
        \cup (IF isNumeric(amt) /\ Number(amt).h > 0 THEN {} ELSE
           {[param |-> "amount", msg |-> "Amount must be numeric."]})
        \cup (IF raw.currency = Undefined \/ isLength3(trim(StrOf(raw.currency)))
              THEN {} ELSE {[param |-> "currency", msg |-> "Invalid value"]})
  IN  [body |-> [raw EXCEPT !.transaction_id = escape(tid),
                            !.payer_name = escape(nam),
                            !.payer_email = normalizeEmail(eml),
                            !.amount = amt,
                            !.currency = opt("currency"),
                            !.payment_status = opt("payment_status"),
                            !.service_type = opt("service_type")],
       errors |-> errs]

\* The validator chain of POST /save-transaction in src/server.js: every
\* value is trimmed, the free-text fields are HTML-escaped after their check,
\* the e-mail address is normalized after its check.  Returns the sanitized
\* req.body and the entries of validationResult(req).array().
SaveChainHardened(raw) ==
  LET tid == trim(StrOf(raw.transaction_id))
      nam == trim(StrOf(raw.payer_name))
      eml == trim(StrOf(raw.payer_email))
      amt == trim(StrOf(raw.amount))
      opt(f) == IF raw[f] = Undefined THEN Undefined
                ELSE escape(trim(StrOf(raw[f])))
      errs ==
        (IF notEmpty(tid) THEN {} ELSE
           {[param |-> "transaction_id", msg |-> "Transaction ID is required."]})
        \cup (IF notEmpty(nam) THEN {} ELSE
           {[param |-> "payer_name", msg |-> "Payer name is required."]})
        \cup (IF isEmail(eml) THEN {} ELSE
           {[param |-> "payer_email", msg |-> "A valid email is required."]})
        \cup (IF isNumeric(amt) THEN {} ELSE
           {[param |-> "amount", msg |-> "Amount must be numeric."]})
        \cup (IF raw.currency = Undefined \/ isLength3(trim(StrOf(raw.currency)))
              THEN {} ELSE {[param |-> "currency", msg |-> "Invalid value"]})
  IN  [body |-> [raw EXCEPT !.transaction_id = escape(tid),
                            !.payer_name = escape(nam),
                            !.payer_email = normalizeEmail(eml),
                            !.amount = amt,
                            !.currency = opt("currency"),
                            !.payment_status = opt("payment_status"),
                            !.service_type = opt("service_type")],
       errors |-> errs]

\* The validator chain of POST /save-transaction in src/unnamed/part_000:
\* the same checks on the values as sent; only payment_status and
\* service_type are trimmed, nothing is escaped or normalized.
SaveChainLegacy(raw) ==
  LET opt(f) == IF raw[f] = Undefined THEN Undefined ELSE trim(StrOf(raw[f]))
      errs ==
        (IF notEmpty(StrOf(raw.transaction_id)) THEN {} ELSE
           {[param |-> "transaction_id", msg |-> "Transaction ID is required."]})
        \cup (IF notEmpty(StrOf(raw.payer_name)) THEN {} ELSE
           {[param |-> "payer_name", msg |-> "Payer name is required."]})
        \cup (IF isEmail(StrOf(raw.payer_email)) THEN {} ELSE
           {[param |-> "payer_email", msg |-> "A valid email is required."]})
        \cup (IF isNumeric(StrOf(raw.amount)) THEN {} ELSE
           {[param |-> "amount", msg |-> "Amount must be numeric."]})
        \cup (IF raw.currency = Undefined \/ isLength3(StrOf(raw.currency))
              THEN {} ELSE {[param |-> "currency", msg |-> "Invalid value"]})
  IN  [body |-> [raw EXCEPT !.payment_status = opt("payment_status"),
                            !.service_type = opt("service_type")],
       errors |-> errs]

\* The validator chain of POST /api/validate-service in src/server.js
ServiceChainHardened(raw) ==
  LET nam == trim(StrOf(raw.name))
  IN  [body |-> [raw EXCEPT !.name = escape(nam)],
       errors |-> IF notEmpty(nam) THEN {} ELSE
                    {[param |-> "name", msg |-> "Service name is required."]}]

----------------------------------------------------------------------------
(* The storage layer: the pg pool and the two tables                       *)

BasicService == <<"B","a","s","i","c"," ","S","e","r","v","i","c","e">>

PremiumService == <<"P","r","e","m","i","u","m"," ","S","e","r","v","i","c","e">>

EnterpriseService ==
  <<"E","n","t","e","r","p","r","i","s","e"," ","S","e","r","v","i","c","e">>

\* the catalog: the static list of part_000, the rows of the services table
\* for server.js
services == <<[id |-> 1, name |-> BasicService, price |-> 100],
              [id |-> 2, name |-> PremiumService, price |-> 200],
              [id |-> 3, name |-> EnterpriseService, price |-> 300]>>

\* what the storage layer reports when it cannot be reached, and when the
\* UNIQUE(transaction_id) constraint rejects an INSERT
ConnectionError == "Connection terminated unexpectedly"

UniqueViolation == "duplicate key value violates unique constraint"

StorageErrors == {ConnectionError, UniqueViolation}

\* how the driver binds a JavaScript value to $n: undefined is sent as NULL,
\* a boolean as its text
PgParam(v) ==
  IF v = Undefined THEN Null
  ELSE IF v = False THEN <<"f","a","l","s","e">>
  ELSE v

\* faulty variant of InsertedRow: payer_name and payer_email bound to each
\* other's placeholder
InsertedRowSwapped(body, table) ==
  [id             |-> Len(table) + 1,
   transaction_id |-> PgParam(body.transaction_id),
   payer_name     |-> PgParam(body.payer_email),
   payer_email    |-> PgParam(body.payer_name),
   amount         |-> PgParam(body.amount),
   currency       |-> PgParam(body.currency),
   payment_status |-> PgParam(body.payment_status),
   service_type   |-> PgParam(body.service_type),
   created_at     |-> Len(table) + 1]

\* the row INSERT ... RETURNING * yields for the seven bound parameters, in
\* the order of the column list; id and created_at are assigned by the table
InsertedRow(body, table) ==
  [id             |-> Len(table) + 1,
   transaction_id |-> PgParam(body.transaction_id),
   payer_name     |-> PgParam(body.payer_name),
   payer_email    |-> PgParam(body.payer_email),
   amount         |-> PgParam(body.amount),
   currency       |-> PgParam(body.currency),
   payment_status |-> PgParam(body.payment_status),
   service_type   |-> PgParam(body.service_type),
   created_at     |-> Len(table) + 1]

RowsWithTx(table, tid) == {k \in 1..Len(table) : table[k].transaction_id = tid}

\* SELECT name, price FROM services WHERE LOWER(name)=LOWER($1): the matches
ServiceMatches(table, name) ==
  {k \in 1..Len(table) : ToLower(table[k].name) = ToLower(name)}

----------------------------------------------------------------------------
(* Errors and responses                                                     *)

\* new ApiError(statusCode, code, message, details)
ApiError(statusCode, code, message, details) ==
  [isApiError |-> TRUE, statusCode |-> statusCode, code |-> code,
   message |-> message, details |-> details]

\* an error thrown by the pg pool: a plain Error carrying the storage message
StorageError(message) ==
  [isApiError |-> FALSE, statusCode |-> 0, code |-> "",
   message |-> message, details |-> {}]

NoResp ==
  [status |-> 0, shape |-> "none", code |-> "", message |-> "",
   details |-> {}, errors |-> {}, requestId |-> 0,
   transaction |-> <<>>, service |-> <<>>, amount |-> <<>>]

\* faulty variant of ErrorHandlerErr: the storage error's own message is kept
ErrorHandlerErrLeaky(err) ==
  IF err.isApiError THEN err
  ELSE ApiError(500, "INTERNAL_ERROR", err.message, {})

\* The global error handler of src/server.js: anything that is not an
\* ApiError becomes ApiError(500, "INTERNAL_ERROR", ...); the body carries
\* code, message and requestId, and err.details only goes to the log.
ErrorHandlerErr(err) ==
  IF err.isApiError THEN err
  ELSE ApiError(500, "INTERNAL_ERROR", "An unexpected error occurred", {})

ErrorHandlerLogs(err, requestId) ==
  (IF err.isApiError THEN {} ELSE
     {[level |-> "error", msg |-> "Unhandled Error",
       detail |-> err.message, req |-> requestId]})
  \cup {[level |-> "warn", msg |-> "API Error Response",
         detail |-> ErrorHandlerErr(err).message, req |-> requestId]}

ErrorHandlerResp(err, requestId) ==
  LET e == ErrorHandlerErr(err)
  IN  [NoResp EXCEPT !.status = e.statusCode, !.shape = "envelope",
                     !.code = e.code, !.message = e.message,
                     !.requestId = requestId]

----------------------------------------------------------------------------
(* The route handlers, up to the first await and from it to the response   *)

NewRequest(route, raw) ==
  [route |-> route, raw |-> raw, body |-> raw, errors |-> {},
   pc |-> "received", result |-> <<>>, dberr |-> "", resp |-> NoResp]

\* faulty variant of SaveArriveHardened: the INSERT is issued without looking
\* at validationResult
SaveArriveHardenedNoCheck(raw, id) ==
  LET c == SaveChainHardened(raw)
  IN  [req  |-> [NewRequest("save", raw) EXCEPT !.body = c.body,
                                                !.errors = c.errors,
                                                !.pc = "db_wait"],
       logs |-> {}]

\* variant of SaveArriveHardened with an existence check: a transaction_id
\* that is already stored is refused before any INSERT
SaveArriveHardenedDedup(raw, id) ==
  LET c == SaveChainHardened(raw)
      r == [NewRequest("save", raw) EXCEPT !.body = c.body, !.errors = c.errors]
      err == IF c.errors # {}
             THEN ApiError(400, "VALIDATION_ERROR", "Validation failed", c.errors)
             ELSE ApiError(409, "DUPLICATE_TRANSACTION", "Already recorded", {})
  IN  IF c.errors # {} \/ RowsWithTx(rows, PgParam(c.body.transaction_id)) # {}
      THEN [req  |-> [r EXCEPT !.pc = "responded",
                               !.resp = ErrorHandlerResp(err, id)],
            logs |-> ErrorHandlerLogs(err, id)]
      ELSE [req |-> [r EXCEPT !.pc = "db_wait"], logs |-> {}]

\* POST /save-transaction, src/server.js: validationResult, then either the
\* thrown ApiError reaches the global error handler through wrap, or the
\* INSERT is handed to the pool
SaveArriveHardened(raw, id) ==
  LET c == SaveChainHardened(raw)
      r == [NewRequest("save", raw) EXCEPT !.body = c.body, !.errors = c.errors]
      err == ApiError(400, "VALIDATION_ERROR", "Validation failed", c.errors)
  IN  IF c.errors # {}
      THEN [req  |-> [r EXCEPT !.pc = "responded",
                               !.resp = ErrorHandlerResp(err, id)],
            logs |-> ErrorHandlerLogs(err, id)]
      ELSE [req |-> [r EXCEPT !.pc = "db_wait"], logs |-> {}]

\* POST /save-transaction, src/unnamed/part_000: the errors array is sent
\* back with status 400, or the INSERT is handed to the pool
SaveArriveLegacy(raw, id) ==
  LET c == SaveChainLegacy(raw)
      r == [NewRequest("save", raw) EXCEPT !.body = c.body, !.errors = c.errors]
  IN  IF c.errors # {}
      THEN [req  |-> [r EXCEPT !.pc = "responded",
                               !.resp = [NoResp EXCEPT !.status = 400,
                                                       !.shape = "errors",
                                                       !.errors = c.errors]],
            logs |-> {[level |-> "warn", msg |-> "Validation error",
                       detail |-> "", req |-> id]}]
      ELSE [req |-> [r EXCEPT !.pc = "db_wait"], logs |-> {}]

\* POST /api/validate-service, src/server.js: validation, then the SELECT
ServiceArriveHardened(raw, id) ==
  LET c == ServiceChainHardened(raw)
      r == [NewRequest("service", raw) EXCEPT !.body = c.body,
                                              !.errors = c.errors]
      err == ApiError(400, "VALIDATION_ERROR", "Invalid input", c.errors)
  IN  IF c.errors # {}
      THEN [req  |-> [r EXCEPT !.pc = "responded",
                               !.resp = ErrorHandlerResp(err, id)],
            logs |-> ErrorHandlerLogs(err, id)]
      ELSE [req |-> [r EXCEPT !.pc = "db_wait"], logs |-> {}]

\* POST /api/validate-service, src/unnamed/part_000: services.find on the
\* name exactly as sent; no storage is involved
ServiceArriveLegacy(raw, id) ==
  LET r == NewRequest("service", raw)
      hits == {k \in 1..Len(services) : services[k].name = raw.name}
  IN  IF hits = {}
      THEN [req  |-> [r EXCEPT !.pc = "responded",
                               !.resp = [NoResp EXCEPT
                                           !.status = 400, !.shape = "bare",
                                           !.message = "Invalid service selection"]],
            logs |-> {}]
      ELSE LET sv == services[Min(hits)]
           IN  [req  |-> [r EXCEPT !.pc = "responded",
                                   !.resp = [NoResp EXCEPT
                                               !.status = 200, !.shape = "service",
                                               !.service = <<[name |-> sv.name,
                                                              price |-> sv.price]>>]],
                logs |-> {}]

\* GET /config/paypal: the client id of the environment, or an error when
\* PAYPAL_CLIENT_ID is not set
ConfigArrive(hasClientId, id) ==
  LET r == NewRequest("config", EmptyBody)
      missing == ApiError(500, "MISSING_PAYPAL_CLIENT_ID",
                          "PayPal Client ID not found", {})
  IN  IF hasClientId
      THEN [req  |-> [r EXCEPT !.pc = "responded",
                               !.resp = [NoResp EXCEPT !.status = 200,
                                                       !.shape = "config"]],
            logs |-> {}]
      ELSE IF rev = "hardened"
      THEN [req  |-> [r EXCEPT !.pc = "responded",
                               !.resp = ErrorHandlerResp(missing, id)],
            logs |-> ErrorHandlerLogs(missing, id)]
      ELSE [req  |-> [r EXCEPT !.pc = "responded",
                               !.resp = [NoResp EXCEPT
                                           !.status = 500, !.shape = "bare",
                                           !.message = "PayPal Client ID not found"]],
            logs |-> {[level |-> "error", msg |-> "PayPal Client ID missing",
                       detail |-> "", req |-> id]}]

\* the smallest custom amount the hardened revisions accept
MinimumCustomAmount == 50

\* variant of ValidateCustomArrive that applies the floor before the sign
\* check
ValidateCustomArriveFloorFirst(raw, id) ==
  LET n == Number(ReplaceComma(StrOf(raw.amount)))
      r == NewRequest("custom", raw)
      tooLow == ApiError(400, "AMOUNT_TOO_LOW", "Amount is below the minimum", {})
      invalid == ApiError(400, "VALIDATION_ERROR", "Invalid amount", {})
  IN  IF ~n.nan /\ n.h < 100 * MinimumCustomAmount
      THEN [req  |-> [r EXCEPT !.pc = "responded",
                               !.resp = ErrorHandlerResp(tooLow, id)],
            logs |-> ErrorHandlerLogs(tooLow, id)]
      ELSE IF n.nan
      THEN [req  |-> [r EXCEPT !.pc = "responded",
                               !.resp = ErrorHandlerResp(invalid, id)],
            logs |-> ErrorHandlerLogs(invalid, id)]
      ELSE [req  |-> [r EXCEPT !.pc = "responded",
                               !.resp = [NoResp EXCEPT !.status = 200,
                                                       !.shape = "amount",
                                                       !.amount = toFixed2(n)]],
            logs |-> {}]

\* POST /api/validate-custom: the comma is normalized, the amount must
\* parse to a number, be above zero, and reach the minimum, in this order;
\* the answer is the amount with two fractional digits.  No storage, no
\* await.
ValidateCustomArrive(raw, id) ==
  LET n == Number(ReplaceComma(StrOf(raw.amount)))
      r == NewRequest("custom", raw)
      tooLow == ApiError(400, "AMOUNT_TOO_LOW", "Amount is below the minimum", {})
      invalid == ApiError(400, "VALIDATION_ERROR", "Invalid amount", {})
  IN  IF raw.amount = Undefined \/ StrOf(raw.amount) = <<>> \/ n.nan \/ n.h <= 0
      THEN [req  |-> [r EXCEPT !.pc = "responded",
                               !.resp = ErrorHandlerResp(invalid, id)],
            logs |-> ErrorHandlerLogs(invalid, id)]
      ELSE IF n.h < 100 * MinimumCustomAmount
      THEN [req  |-> [r EXCEPT !.pc = "responded",
                               !.resp = ErrorHandlerResp(tooLow, id)],
            logs |-> ErrorHandlerLogs(tooLow, id)]
      ELSE [req  |-> [r EXCEPT !.pc = "responded",
                               !.resp = [NoResp EXCEPT !.status = 200,
                                                       !.shape = "amount",
                                                       !.amount = toFixed2(n)]],
            logs |-> {}]

\* the configured minimum sale price of the revisions that enforce one
PriceFloor == 300

\* POST /api/validate-service of a revision with a price floor, up to the
\* lookup: the checks of server.js
ServiceArriveFloor(raw, id) ==
  LET a == ServiceArriveHardened(raw, id)
  IN  [a EXCEPT !.req.route = "service_floor"]

Arrive(route, raw, id) ==
  IF route = "save"
  THEN IF rev = "hardened" THEN SaveArriveHardened(raw, id)
       ELSE SaveArriveLegacy(raw, id)
  ELSE IF route = "service_floor" THEN ServiceArriveFloor(raw, id)
  ELSE IF route = "custom" THEN ValidateCustomArrive(raw, id)
  ELSE IF rev = "hardened" THEN ServiceArriveHardened(raw, id)
       ELSE ServiceArriveLegacy(raw, id)

\* a notification: who it is for and how far it got
Mail(id, to, state, invokedBeforeResponse) ==
  [req |-> id, to |-> to, state |-> state,
   invokedBeforeResponse |-> invokedBeforeResponse]

SavedResp(row) ==
  [NoResp EXCEPT !.status = 200, !.shape = "saved",
                 !.message = "Transaction saved", !.transaction = <<row>>]

\* faulty variant of SaveResumeHardened: a rejected INSERT is answered like a
\* successful one
SaveResumeHardenedSwallow(r, id) ==
  [req   |-> [r EXCEPT !.pc = "responded",
                       !.resp = [NoResp EXCEPT !.status = 200, !.shape = "saved",
                                               !.message = "Transaction saved",
                                               !.transaction = r.result]],
   logs  |-> {[level |-> "info", msg |-> "Transaction saved",
               detail |-> "", req |-> id]},
   mails |-> IF r.pc = "db_ok"
             THEN <<[req |-> id, to |-> r.body.payer_email, state |-> "scheduled",
                     invokedBeforeResponse |-> FALSE]>>
             ELSE <<>>]

\* src/server.js after await pool.query of the INSERT: setImmediate queues the
\* sendMail call, the save is logged and the stored row is sent back; a
\* rejected query leaves through wrap to the global error handler
SaveResumeHardened(r, id) ==
  IF r.pc = "db_ok"
  THEN [req   |-> [r EXCEPT !.pc = "responded", !.resp = SavedResp(r.result[1])],
        logs  |-> {[level |-> "info", msg |-> "Transaction saved",
                    detail |-> "", req |-> id]},
        mails |-> <<Mail(id, r.body.payer_email, "scheduled", FALSE)>>]
  ELSE [req   |-> [r EXCEPT !.pc = "responded",
                            !.resp = ErrorHandlerResp(StorageError(r.dberr), id)],
        logs  |-> ErrorHandlerLogs(StorageError(r.dberr), id),
        mails |-> <<>>]

\* faulty variant of SaveResumeLegacy: sendMail is called whether or not the
\* INSERT succeeded
SaveResumeLegacyAlwaysMail(r, id) ==
  [req   |-> [r EXCEPT !.pc = "responded",
                       !.resp = IF r.pc = "db_ok"
                                THEN [NoResp EXCEPT !.status = 200, !.shape = "saved",
                                                    !.message = "Transaction saved",
                                                    !.transaction = r.result]
                                ELSE [NoResp EXCEPT !.status = 500, !.shape = "flat",
                                                    !.message = "Database error"]],
   logs  |-> {},
   mails |-> <<[req |-> id, to |-> r.body.payer_email, state |-> "sending",
                invokedBeforeResponse |-> TRUE]>>]

\* src/unnamed/part_000 after await pool.query: the save is logged, sendMail
\* is called, then the stored row is sent back; the catch block answers a
\* rejected query with status 500 and "Database error"
SaveResumeLegacy(r, id) ==
  IF r.pc = "db_ok"
  THEN [req   |-> [r EXCEPT !.pc = "responded", !.resp = SavedResp(r.result[1])],
        logs  |-> {[level |-> "info", msg |-> "Transaction saved",
                    detail |-> "", req |-> id]},
        mails |-> <<Mail(id, r.body.payer_email, "sending", TRUE)>>]
  ELSE [req   |-> [r EXCEPT !.pc = "responded",
                            !.resp = [NoResp EXCEPT !.status = 500,
                                                    !.shape = "flat",
                                                    !.message = "Database error"]],
        logs  |-> {[level |-> "error", msg |-> "Database error",
                    detail |-> r.dberr, req |-> id]},
        mails |-> <<>>]

\* faulty variant of ServiceResumeHardened: rows[0] is read without the
\* rows.length check, so an empty result ends in a TypeError
ServiceResumeHardenedCrash(r, id) ==
  LET crash == StorageError("Cannot read properties of undefined")
  IN  IF r.pc = "db_err"
      THEN [req   |-> [r EXCEPT !.pc = "responded",
                                !.resp = ErrorHandlerResp(StorageError(r.dberr), id)],
            logs  |-> ErrorHandlerLogs(StorageError(r.dberr), id),
            mails |-> <<>>]
      ELSE IF r.result = <<>>
      THEN [req   |-> [r EXCEPT !.pc = "responded",
                                !.resp = ErrorHandlerResp(crash, id)],
            logs  |-> ErrorHandlerLogs(crash, id),
            mails |-> <<>>]
      ELSE [req   |-> [r EXCEPT !.pc = "responded",
                                !.resp = [NoResp EXCEPT !.status = 200,
                                                        !.shape = "service",
                                                        !.service = r.result]],
            logs  |-> {},
            mails |-> <<>>]

\* faulty variant of ServiceResumeHardened: an empty result is neither
\* answered nor thrown, and the request is left open
ServiceResumeHardenedHang(r, id) ==
  IF r.pc = "db_err"
  THEN [req   |-> [r EXCEPT !.pc = "responded",
                            !.resp = ErrorHandlerResp(StorageError(r.dberr), id)],
        logs  |-> ErrorHandlerLogs(StorageError(r.dberr), id),
        mails |-> <<>>]
  ELSE IF r.result = <<>>
  THEN [req |-> [r EXCEPT !.pc = "open"], logs |-> {}, mails |-> <<>>]
  ELSE [req   |-> [r EXCEPT !.pc = "responded",
                            !.resp = [NoResp EXCEPT !.status = 200,
                                                    !.shape = "service",
                                                    !.service = r.result]],
        logs  |-> {},
        mails |-> <<>>]

\* src/server.js after await pool.query of the SELECT
ServiceResumeHardened(r, id) ==
  LET notFound == ApiError(400, "SERVICE_NOT_FOUND", "Invalid service selection", {})
  IN  IF r.pc = "db_err"
      THEN [req   |-> [r EXCEPT !.pc = "responded",
                                !.resp = ErrorHandlerResp(StorageError(r.dberr), id)],
            logs  |-> ErrorHandlerLogs(StorageError(r.dberr), id),
            mails |-> <<>>]
      ELSE IF r.result = <<>>
      THEN [req   |-> [r EXCEPT !.pc = "responded",
                                !.resp = ErrorHandlerResp(notFound, id)],
            logs  |-> ErrorHandlerLogs(notFound, id),
            mails |-> <<>>]
      ELSE [req   |-> [r EXCEPT !.pc = "responded",
                                !.resp = [NoResp EXCEPT !.status = 200,
                                                        !.shape = "service",
                                                        !.service = r.result]],
            logs  |-> {},
            mails |-> <<>>]

\* variant of ServiceResumeFloor that compares the floor with the price
\* the wrong way round
ServiceResumeFloorInverted(r, id) ==
  LET tooLow == ApiError(400, "PRICE_TOO_LOW", "Price is below the minimum", {})
      plain == ServiceResumeHardened(r, id)
  IN  IF r.pc = "db_ok" /\ r.result # <<>> /\ r.result[1].price > PriceFloor
      THEN [req   |-> [r EXCEPT !.pc = "responded",
                                !.resp = ErrorHandlerResp(tooLow, id)],
            logs  |-> ErrorHandlerLogs(tooLow, id),
            mails |-> <<>>]
      ELSE plain

\* ... and after the lookup: a matched service whose price is below the
\* floor is refused with PRICE_TOO_LOW; everything else as in server.js
ServiceResumeFloor(r, id) ==
  LET tooLow == ApiError(400, "PRICE_TOO_LOW", "Price is below the minimum", {})
      plain == ServiceResumeHardened(r, id)
  IN  IF r.pc = "db_ok" /\ r.result # <<>> /\ r.result[1].price < PriceFloor
      THEN [req   |-> [r EXCEPT !.pc = "responded",
                                !.resp = ErrorHandlerResp(tooLow, id)],
            logs  |-> ErrorHandlerLogs(tooLow, id),
            mails |-> <<>>]
      ELSE plain

ResumeOf(r, id) ==
  IF r.route = "service" THEN ServiceResumeHardened(r, id)
  ELSE IF r.route = "service_floor" THEN ServiceResumeFloor(r, id)
  ELSE IF rev = "hardened" THEN SaveResumeHardened(r, id)
  ELSE SaveResumeLegacy(r, id)

----------------------------------------------------------------------------
(* The browser flows of public/js/payment.js, as far as the server sees     *)
(* them: a PayPal capture that succeeded, and the POST that may follow      *)

\* the id PayPal gives its k-th order
TxId(k) == <<"T","X">> \o <<CHOOSE d \in Digits : d = ToString(k)>>

TX1 == TxId(1)

TX2 == TxId(2)

\* what actions.order.capture() resolves to
CaptureDetails(tid) ==
  [id |-> tid,
   given_name |-> <<"J","o">>,
   email_address |-> <<"j","@","x",".","c","o">>,
   value |-> <<"1","5",".","0","0">>,
   currency_code |-> <<"U","S","D">>,
   status |-> <<"D","O","N","E">>,
   description |-> <<"P","a","y">>]

\* the payload saveTransaction(details) posts
saveTransaction(details) ==
  [EmptyBody EXCEPT !.transaction_id = details.id,
                    !.payer_name = details.given_name,
                    !.payer_email = details.email_address,
                    !.amount = details.value,
                    !.currency = details.currency_code,
                    !.payment_status = details.status,
                    !.service_type = details.description]

\* the flows whose onApprove ends in saveTransaction, and those whose
\* onApprove only shows "Payment of ... successful!"
SavingFlows == {"attachBuyButtonHandlers", "initPaymentHandlers"}

DisplayOnlyFlows == {"renderPayPalButtons"}

Flows == SavingFlows \cup DisplayOnlyFlows

----------------------------------------------------------------------------
(* The request bodies the model sends                                       *)

Base == saveTransaction(CaptureDetails(TX1))

\* bodies that pass both revisions' checks, among them an address that
\* normalizeEmail gives up on and a currency with a character escape rewrites
ValidBodies ==
  { Base,
    [Base EXCEPT !.transaction_id = TX2],
    [Base EXCEPT !.payer_name = <<"<","b",">">>,
                 !.service_type = <<" ","a","&","b"," ">>],
    [Base EXCEPT !.payer_email = <<"A",".","b","+","c","@","G","m","a","i","l",".","c","o","m">>],
    [Base EXCEPT !.payer_email = <<"+","@","g","m","a","i","l",".","c","o","m">>],
    [Base EXCEPT !.currency = <<"U","&","D">>],
    [Base EXCEPT !.amount = <<"-","5">>],
    [Base EXCEPT !.amount = <<"0">>],
    [Base EXCEPT !.currency = Undefined, !.payment_status = Undefined,
                 !.service_type = Undefined] }

\* bodies with one field (or two) that a check rejects, and two that only
\* one revision rejects (surrounding blanks)
InvalidBodies ==
  { [Base EXCEPT !.transaction_id = <<>>],
    [Base EXCEPT !.transaction_id = Undefined],
    [Base EXCEPT !.payer_name = <<>>],
    [Base EXCEPT !.payer_email = <<"j","x",".","c","o">>],
    [Base EXCEPT !.payer_email = Undefined],
    [Base EXCEPT !.amount = <<"1","a">>],
    [Base EXCEPT !.amount = Undefined],
    [Base EXCEPT !.currency = <<"U","S">>],
    [Base EXCEPT !.transaction_id = <<>>, !.payer_email = <<"j","@","x">>],
    [Base EXCEPT !.payer_name = <<" ">>],
    [Base EXCEPT !.payer_email = <<" ","j","@","x",".","c","o">>] }

SaveBodies == ValidBodies \cup InvalidBodies

CoreServiceBodies == { [EmptyBody EXCEPT !.name = BasicService] }

\* the bodies of the runs in which requests race: a capture's payload, the
\* same with another transaction_id, and one without payer_email
CoreSaveBodies ==
  { Base,
    [Base EXCEPT !.transaction_id = TX2],
    [Base EXCEPT !.payer_email = Undefined] }

ServiceBodies ==
  { [EmptyBody EXCEPT !.name = BasicService],
    [EmptyBody EXCEPT !.name = <<" ">> \o ToLower(BasicService) \o <<" ">>],
    [EmptyBody EXCEPT !.name = <<"N","o","p","e">>],
    EmptyBody }

\* the amounts typed into the custom-amount field or posted to
\* /api/validate-custom: with a point, with a comma, below the minimum, at
\* it, not above zero, and not a number
AmountTexts ==
  { <<"7","5",".","5">>, <<"7","5",".","5","0">>, <<"7","5",",","5","0">>,
    <<"7","5">>, <<"5","0">>, <<"4","9",".","9","9">>, <<"1","2",".","3","4">>,
    <<"1","2",",","3","4">>, <<"0",".","0","1">>, <<"0">>, <<"-","5">>,
    <<"a","b","c">>, <<"1","2","a">>, <<>> }

AmountBodies ==
  {[EmptyBody EXCEPT !.amount = t] : t \in AmountTexts} \cup {EmptyBody}

\* the pay buttons of the pages: the first two hand the amount straight to
\* renderPayPalButtons, the other two ask /api/validate-custom first
UnvalidatedFlows == {"setupCustomAmountFlow", "setupBuyButtonsFlow"}

ValidatedFlows == {"attachBuyButtonHandlers", "initPaymentHandlers"}

\* what the model types into the amount field before a click, and the
\* data-amount attribute of a buy button
ClickTexts ==
  { <<"7","5",".","5","0">>, <<"7","5",",","5","0">>,
    <<"1","2",".","3","4">>, <<"a","b","c">> }

DataAmount == <<"1","0","0">>

ClickChoices ==
  ((ValidatedFlows \cup {"setupCustomAmountFlow"}) \X ClickTexts)
    \cup {<<"setupBuyButtonsFlow", DataAmount>>}

\* the payment page as loaded: the amount field is empty, #pay-btn is
\* disabled, its text shows and its spinner is hidden
PageLoaded ==
  [amountInput |-> <<>>, disabled |-> TRUE, textHidden |-> FALSE,
   spinnerHidden |-> TRUE]

\* the cluster once the master has run its fork loop: numCPUs workers, each
\* running the server code; the master itself has returned before it
StartedCluster ==
  [workers |-> [w \in 1..NumCPUs |-> "running"],
   exitEvents |-> <<>>,
   masterListens |-> FALSE]

\* how a worker process can end: process.exit(0) at the end of shutdown, an
\* uncaught exception, a signal that kills it; a worker that has ended keeps
\* the cause as its state
ExitCauses == {"exit0", "exit1", "SIGKILL"}

----------------------------------------------------------------------------
(* The state machine                                                        *)

Init ==
  /\ rev \in {"hardened", "legacy"}
  /\ uniqueTx \in BOOLEAN
  /\ reqs = <<>>
  /\ rows = <<>>
  /\ insertedBy = <<>>
  /\ mails = <<>>
  /\ logs = {}
  /\ captures = <<>>
  /\ clicks = <<>>
  /\ catalog = services
  /\ cluster = StartedCluster
  /\ page = PageLoaded

\* a request reaches its route and runs to its response or its first await
Receive(route, raw) ==
  LET id == Len(reqs) + 1
      a == Arrive(route, raw, id)
  IN  /\ Len(reqs) < MaxReqs
      /\ reqs' = Append(reqs, a.req)
      /\ logs' = logs \cup a.logs
      /\ UNCHANGED <<page, cluster, catalog, clicks, rev, uniqueTx, rows, insertedBy, mails, captures>>

\* onApprove of a flow, after actions.order.capture() resolved: the flows
\* that save post the payload at once
CaptureStep(flow) ==
  LET id == Len(reqs) + 1
      tid == TxId(Len(captures) + 1)
      a == Arrive("save", saveTransaction(CaptureDetails(tid)), id)
  IN  /\ Len(captures) < MaxCaptures
      /\ IF flow \in SavingFlows
         THEN /\ Len(reqs) < MaxReqs
              /\ reqs' = Append(reqs, a.req)
              /\ logs' = logs \cup a.logs
              /\ captures' = Append(captures, [txid |-> tid, flow |-> flow, req |-> id])
         ELSE /\ captures' = Append(captures, [txid |-> tid, flow |-> flow, req |-> 0])
              /\ UNCHANGED <<reqs, logs>>
      /\ UNCHANGED <<page, cluster, catalog, rev, uniqueTx, rows, insertedBy, mails>>

\* PayPal reports a capture as successful to a flow's onApprove
ClientCapture(flow) == CaptureStep(flow) /\ UNCHANGED clicks

\* whose onApprove runs for an order a click led to
OnApproveOf(flow) ==
  IF flow \in UnvalidatedFlows THEN "renderPayPalButtons" ELSE flow

\* what a click handler makes of the text in the amount field (of the
\* data-amount attribute for setupBuyButtonsFlow): the number it reads, and
\* whether it goes on
ClickNumber(flow, input) ==
  CASE flow = "setupCustomAmountFlow"   -> parseFloat(ReplaceComma(input))
    [] flow = "attachBuyButtonHandlers" -> parseFloat(input)
    [] flow = "initPaymentHandlers"     -> Number(trim(ReplaceComma(input)))
    [] OTHER                            -> NaN

ClickGoesOn(flow, input) ==
  LET n == ClickNumber(flow, input)
  IN  CASE flow = "setupCustomAmountFlow"   -> ~n.nan /\ n.h >= 1
        [] flow = "attachBuyButtonHandlers" -> ~n.nan /\ n.h > 0
        [] flow = "initPaymentHandlers"     ->
             trim(ReplaceComma(input)) # <<>> /\ ~n.nan /\ n.h > 0
        [] OTHER                            -> TRUE

NewClick(flow, input) ==
  [flow |-> flow, input |-> input, state |-> "stopped", sent |-> <<>>,
   req |-> 0, value |-> <<>>, capture |-> 0]

\* validateAmount: the button is enabled exactly when the field holds an
\* amount above zero
validateAmount(p) ==
  [p EXCEPT !.disabled = ~ClickGoesOn("initPaymentHandlers", p.amountInput)]

\* handlePaymentClick before its fetch: button disabled, text hidden,
\* spinner shown
ButtonBusy(p) ==
  [p EXCEPT !.disabled = TRUE, !.textHidden = TRUE, !.spinnerHidden = FALSE]

\* the finally block of handlePaymentClick
ButtonReady(p) ==
  [p EXCEPT !.disabled = FALSE, !.textHidden = FALSE, !.spinnerHidden = TRUE]

\* the visitor edits the amount field: the input listener runs validateAmount
TypeAmount(input) ==
  /\ input # page.amountInput
  /\ page' = validateAmount([page EXCEPT !.amountInput = input])
  /\ UNCHANGED <<cluster, catalog, clicks, rev, uniqueTx, reqs, rows,
                 insertedBy, mails, logs, captures>>

\* a click on a pay button, up to the handler's first await or its end.
\* A disabled #pay-btn takes no click and handlePaymentClick reads the
\* amount field; it disables the button and shows the spinner before it
\* fetches.  The fetch reaches the server or fails on the way (req 0).
PayClick(flow, input) ==
  LET c == NewClick(flow, input)
      n == ClickNumber(flow, input)
      id == Len(reqs) + 1
      busy == IF flow = "initPaymentHandlers" THEN ButtonBusy(page) ELSE page
  IN  /\ Len(clicks) < MaxClicks
      /\ flow = "initPaymentHandlers" =>
           ~page.disabled /\ input = page.amountInput
      /\ IF ~ClickGoesOn(flow, input)
         THEN /\ clicks' = Append(clicks, c)
              /\ UNCHANGED <<reqs, logs, page>>
         ELSE IF flow \in UnvalidatedFlows
         THEN /\ clicks' = Append(clicks,
                     [c EXCEPT !.state = "rendered",
                               !.value = IF flow = "setupBuyButtonsFlow"
                                         THEN input ELSE toFixed2(n)])
              /\ UNCHANGED <<reqs, logs, page>>
         ELSE \/ LET a == Arrive("custom",
                                 [EmptyBody EXCEPT !.amount = JsonNumber(n)], id)
                 IN  /\ Len(reqs) < MaxReqs
                     /\ reqs' = Append(reqs, a.req)
                     /\ logs' = logs \cup a.logs
                     /\ page' = busy
                     /\ clicks' = Append(clicks,
                            [c EXCEPT !.state = "validating", !.req = id,
                                      !.sent = JsonNumber(n)])
              \/ /\ page' = busy
                 /\ clicks' = Append(clicks,
                        [c EXCEPT !.state = "validating",
                                  !.sent = JsonNumber(n)])
                 /\ UNCHANGED <<reqs, logs>>
      /\ UNCHANGED <<cluster, catalog, rev, uniqueTx, rows, insertedBy, mails,
                     captures>>

\* what a click comes to after await fetch("/api/validate-custom"): the
\* fetch failed, the server refused the amount, or the PayPal button is
\* rendered with the amount of the answer
Resumed(c) ==
  IF c.req = 0 THEN [c EXCEPT !.state = "failed"]
  ELSE IF reqs[c.req].resp.status = 200
  THEN [c EXCEPT !.state = "rendered", !.value = reqs[c.req].resp.amount]
  ELSE [c EXCEPT !.state = "refused"]

\* container.innerHTML = "" before a render: a PayPal button of the same
\* page that was rendered and not yet used is gone
Cleared(k, c) ==
  IF /\ clicks[c].flow = "initPaymentHandlers"
     /\ Resumed(clicks[c]).state = "rendered"
     /\ k # c /\ clicks[k].flow = "initPaymentHandlers"
     /\ clicks[k].state = "rendered"
  THEN [clicks[k] EXCEPT !.state = "cleared"]
  ELSE clicks[k]

\* faulty variant of ValidateResume: the button is enabled again only on
\* the path that renders the PayPal button
ValidateResumeNoFinally(c) ==
  /\ clicks[c].state = "validating"
  /\ clicks' = [k \in 1..Len(clicks) |->
                  IF k = c THEN Resumed(clicks[c]) ELSE Cleared(k, c)]
  /\ page' = IF /\ clicks[c].flow = "initPaymentHandlers"
                     /\ Resumed(clicks[c]).state = "rendered"
                  THEN ButtonReady(page) ELSE page
  /\ UNCHANGED <<cluster, catalog, rev, uniqueTx, reqs, rows, insertedBy, mails,
                 logs, captures>>

\* the handler goes on after its await; in initPaymentHandlers the finally
\* block enables the button, shows its text and hides the spinner on every
\* path
ValidateResume(c) ==
  /\ clicks[c].state = "validating"
  /\ clicks' = [k \in 1..Len(clicks) |->
                  IF k = c THEN Resumed(clicks[c]) ELSE Cleared(k, c)]
  /\ page' = IF clicks[c].flow = "initPaymentHandlers"
                  THEN ButtonReady(page) ELSE page
  /\ UNCHANGED <<cluster, catalog, rev, uniqueTx, reqs, rows, insertedBy, mails,
                 logs, captures>>

\* createOrder: the payment attempt starts
CreateOrder(c) ==
  /\ clicks[c].state = "rendered"
  /\ clicks' = [clicks EXCEPT ![c].state = "ordered"]
  /\ UNCHANGED <<page, cluster, catalog, rev, uniqueTx, reqs, rows, insertedBy, mails, logs, captures>>

\* the buyer approves and the capture succeeds
Approve(c) ==
  /\ clicks[c].state = "ordered"
  /\ CaptureStep(OnApproveOf(clicks[c].flow))
  /\ clicks' = [clicks EXCEPT ![c].state = "captured",
                              ![c].capture = Len(captures) + 1]

\* GET /config/paypal arrives and is answered
ReceiveConfig(hasClientId) ==
  LET id == Len(reqs) + 1
      a == ConfigArrive(hasClientId, id)
  IN  /\ Len(reqs) < MaxReqs
      /\ reqs' = Append(reqs, a.req)
      /\ logs' = logs \cup a.logs
      /\ UNCHANGED <<page, cluster, catalog, clicks, rev, uniqueTx, rows, insertedBy, mails, captures>>

\* variant of DbInsert written as an upsert: a row with the same
\* transaction_id is overwritten
DbInsertUpsert(i) ==
  LET r == reqs[i]
      row == InsertedRow(r.body, rows)
      same == RowsWithTx(rows, row.transaction_id)
  IN  /\ r.pc = "db_wait" /\ r.route = "save"
      /\ IF same # {}
         THEN /\ rows' = [rows EXCEPT ![Min(same)] = [row EXCEPT !.id = Min(same)]]
              /\ insertedBy' = [insertedBy EXCEPT ![Min(same)] = i]
              /\ reqs' = [reqs EXCEPT ![i].pc = "db_ok", ![i].result = <<row>>]
         ELSE /\ rows' = Append(rows, row)
              /\ insertedBy' = Append(insertedBy, i)
              /\ reqs' = [reqs EXCEPT ![i].pc = "db_ok", ![i].result = <<row>>]
      /\ UNCHANGED <<page, cluster, catalog, clicks, rev, uniqueTx, mails, logs, captures>>

\* the storage layer runs the INSERT of request i
DbInsert(i) ==
  LET r == reqs[i]
      row == InsertedRow(r.body, rows)
  IN  /\ r.pc = "db_wait" /\ r.route = "save"
      /\ IF uniqueTx /\ RowsWithTx(rows, row.transaction_id) # {}
         THEN /\ reqs' = [reqs EXCEPT ![i].pc = "db_err",
                                      ![i].dberr = UniqueViolation]
              /\ UNCHANGED <<rows, insertedBy>>
         ELSE /\ rows' = Append(rows, row)
              /\ insertedBy' = Append(insertedBy, i)
              /\ reqs' = [reqs EXCEPT ![i].pc = "db_ok", ![i].result = <<row>>]
      /\ UNCHANGED <<page, cluster, catalog, clicks, rev, uniqueTx, mails, logs, captures>>

\* the storage layer runs the SELECT ... LIMIT 1 of request i: no row, or
\* one of the matching rows
DbSelect(i) ==
  LET r == reqs[i]
      hits == ServiceMatches(catalog, PgParam(r.body.name))
  IN  /\ r.pc = "db_wait" /\ r.route \in {"service", "service_floor"}
      /\ \/ /\ hits = {}
            /\ reqs' = [reqs EXCEPT ![i].pc = "db_ok", ![i].result = <<>>]
         \/ \E k \in hits :
              reqs' = [reqs EXCEPT ![i].pc = "db_ok",
                                   ![i].result = <<[name |-> catalog[k].name,
                                                    price |-> catalog[k].price]>>]
      /\ UNCHANGED <<page, cluster, catalog, clicks, rev, uniqueTx, rows, insertedBy, mails, logs, captures>>

\* the storage layer cannot be reached: the query of request i is rejected
DbFail(i) ==
  /\ reqs[i].pc = "db_wait"
  /\ reqs' = [reqs EXCEPT ![i].pc = "db_err", ![i].dberr = ConnectionError]
  /\ UNCHANGED <<page, cluster, catalog, clicks, rev, uniqueTx, rows, insertedBy, mails, logs, captures>>

\* the handler of request i continues after its await
Resume(i) ==
  LET c == ResumeOf(reqs[i], i)
  IN  /\ reqs[i].pc \in {"db_ok", "db_err"}
      /\ reqs' = [reqs EXCEPT ![i] = c.req]
      /\ logs' = logs \cup c.logs
      /\ mails' = mails \o c.mails
      /\ UNCHANGED <<page, cluster, catalog, clicks, rev, uniqueTx, rows, insertedBy, captures>>

\* the setImmediate callback of src/server.js runs: transporter.sendMail
ImmediateFire(m) ==
  /\ mails[m].state = "scheduled"
  /\ mails' = [mails EXCEPT ![m].state = "sending",
                            ![m].invokedBeforeResponse =
                               (reqs[mails[m].req].pc # "responded")]
  /\ UNCHANGED <<page, cluster, catalog, clicks, rev, uniqueTx, reqs, rows, insertedBy, logs, captures>>

\* faulty variant of MailDone: a failed send takes the stored row back
MailDoneRollback(m, ok) ==
  /\ mails[m].state = "sending"
  /\ mails' = [mails EXCEPT ![m].state = IF ok THEN "sent" ELSE "failed"]
  /\ IF ok
     THEN UNCHANGED <<rows, insertedBy>>
     ELSE LET keep == {k \in 1..Len(rows) : insertedBy[k] # mails[m].req}
              F[k \in 0..Len(rows)] ==
                IF k = 0 THEN <<>>
                ELSE IF k \in keep THEN Append(F[k - 1], k) ELSE F[k - 1]
              idx == F[Len(rows)]
          IN  /\ rows' = [j \in 1..Len(idx) |-> rows[idx[j]]]
              /\ insertedBy' = [j \in 1..Len(idx) |-> insertedBy[idx[j]]]
  /\ logs' = logs \cup
       {IF ok
        THEN [level |-> "info", msg |-> "Confirmation email sent",
              detail |-> "", req |-> mails[m].req]
        ELSE [level |-> "error", msg |-> "Error sending confirmation email",
              detail |-> "mail transport error", req |-> mails[m].req]}
  /\ UNCHANGED <<page, cluster, catalog, clicks, rev, uniqueTx, reqs, captures>>

\* the transport calls back, with an error or with info: one log line
MailDone(m, ok) ==
  /\ mails[m].state = "sending"
  /\ mails' = [mails EXCEPT ![m].state = IF ok THEN "sent" ELSE "failed"]
  /\ logs' = logs \cup
       {IF ok
        THEN [level |-> "info", msg |-> "Confirmation email sent",
              detail |-> "", req |-> mails[m].req]
        ELSE [level |-> "error", msg |-> "Error sending confirmation email",
              detail |-> "mail transport error", req |-> mails[m].req]}
  /\ UNCHANGED <<page, cluster, catalog, clicks, rev, uniqueTx, reqs, rows, insertedBy, captures>>

\* what the server, the storage layer and the mail transport do on their own
Internal ==
  \/ \E i \in 1..Len(reqs) : DbInsert(i)
  \/ \E i \in 1..Len(reqs) : DbSelect(i)
  \/ \E i \in 1..Len(reqs) : DbFail(i)
  \/ \E i \in 1..Len(reqs) : Resume(i)
  \/ \E m \in 1..Len(mails) : ImmediateFire(m)
  \/ \E m \in 1..Len(mails), ok \in BOOLEAN : MailDone(m, ok)

\* few requests, bodies of every kind
NextInputs ==
  \/ \E raw \in SaveBodies :
       Len(reqs) < MaxInputReqs /\ Receive("save", raw)
  \/ \E raw \in ServiceBodies :
       Len(reqs) < MaxInputReqs /\ Receive("service", raw)
  \/ \E flow \in Flows :
       Len(reqs) < MaxInputReqs /\ ClientCapture(flow)
  \/ Internal

SpecInputs == Init /\ [][NextInputs]_vars

\* more requests, racing each other, bodies of a few kinds
Next ==
  \/ \E raw \in CoreSaveBodies : Receive("save", raw)
  \/ \E raw \in CoreServiceBodies : Receive("service", raw)
  \/ \E flow \in Flows : ClientCapture(flow)
  \/ Internal

Spec == Init /\ [][Next]_vars

\* all four routes side by side, up to the responses
LedgerAmountBodies ==
  { [EmptyBody EXCEPT !.amount = <<"7","5",".","5">>],
    [EmptyBody EXCEPT !.amount = <<"a","b","c">>] }

NextLedger ==
  \/ \E raw \in CoreSaveBodies : Receive("save", raw)
  \/ \E raw \in CoreServiceBodies : Receive("service", raw)
  \/ \E raw \in LedgerAmountBodies : Receive("custom", raw)
  \/ \E hasClientId \in BOOLEAN : ReceiveConfig(hasClientId)
  \/ \E i \in 1..Len(reqs) : DbInsert(i)
  \/ \E i \in 1..Len(reqs) : DbSelect(i)
  \/ \E i \in 1..Len(reqs) : DbFail(i)
  \/ \E i \in 1..Len(reqs) : Resume(i)

SpecLedger == Init /\ [][NextLedger]_vars

\* a services table in which two rows differ in letter case only (the
\* table has no case-insensitive uniqueness), and the states the server can
\* start in with either table
servicesWithTwin ==
  Append(services, [id |-> 4, name |-> ToLower(BasicService), price |-> 150])

InitTables ==
  /\ rev \in {"hardened", "legacy"}
  /\ uniqueTx \in BOOLEAN
  /\ reqs = <<>> /\ rows = <<>> /\ insertedBy = <<>> /\ mails = <<>>
  /\ logs = {} /\ captures = <<>> /\ clicks = <<>>
  /\ catalog \in {services, servicesWithTwin}
  /\ cluster = StartedCluster
  /\ page = PageLoaded

\* the service lookup on its own, over either table
NextTables ==
  \/ \E raw \in ServiceBodies : Receive("service", raw)
  \/ \E i \in 1..Len(reqs) : DbSelect(i)
  \/ \E i \in 1..Len(reqs) : DbFail(i)
  \/ \E i \in 1..Len(reqs) : Resume(i)

SpecTables == InitTables /\ [][NextTables]_vars

\* the storage layer answers or rejects the query of request i, and the
\* event loop runs the continuation of its handler
StorageAnswers(i) ==
  i \in 1..Len(reqs) /\ (DbInsert(i) \/ DbSelect(i) \/ DbFail(i))

HandlerResumes(i) == i \in 1..Len(reqs) /\ Resume(i)

\* SpecInputs with a storage layer that settles every query and an event
\* loop that runs every continuation; nothing is assumed of the mail
\* transport
SpecLive ==
  /\ Init /\ [][NextInputs]_vars
  /\ \A i \in 1..MaxInputReqs :
       WF_vars(StorageAnswers(i)) /\ WF_vars(HandlerResumes(i))

\* a worker gets SIGTERM or SIGINT: shutdown() closes the server and the
\* pool, and will call process.exit(0)
WorkerSignal(w) ==
  /\ cluster.workers[w] = "running"
  /\ cluster' = [cluster EXCEPT !.workers[w] = "closing"]
  /\ UNCHANGED <<rev, uniqueTx, reqs, rows, insertedBy, mails, logs, captures,
                 clicks, catalog, page>>

\* a worker process ends; the master is sent the exit event
WorkerExit(w, cause) ==
  /\ cluster.workers[w] \in {"running", "closing"}
  /\ cause = "exit0" <=> cluster.workers[w] = "closing"
  /\ Cardinality({v \in 1..Len(cluster.workers) :
                     cluster.workers[v] \in ExitCauses}) < MaxExits
  /\ cluster' = [cluster EXCEPT
                   !.workers[w] = cause,
                   !.exitEvents = Append(@, [worker |-> w, cause |-> cause])]
  /\ UNCHANGED <<rev, uniqueTx, reqs, rows, insertedBy, mails, logs, captures,
                 clicks, catalog, page>>

\* variant of MasterOnExit that replaces a worker only when it did not
\* exit cleanly
MasterOnExitUncleanOnly ==
  /\ cluster.exitEvents # <<>>
  /\ cluster' = [cluster EXCEPT
                   !.exitEvents = Tail(@),
                   !.workers = IF Head(cluster.exitEvents).cause = "exit0"
                               THEN @ ELSE Append(@, "running")]
  /\ UNCHANGED <<rev, uniqueTx, reqs, rows, insertedBy, mails, logs, captures,
                 clicks, catalog, page>>

\* cluster.on("exit"): the master forks one worker, whatever the code or
\* the signal
MasterOnExit ==
  /\ cluster.exitEvents # <<>>
  /\ cluster' = [cluster EXCEPT !.exitEvents = Tail(@),
                                !.workers = Append(@, "running")]
  /\ UNCHANGED <<rev, uniqueTx, reqs, rows, insertedBy, mails, logs, captures,
                 clicks, catalog, page>>

NextCluster ==
  \/ \E w \in 1..Len(cluster.workers) : WorkerSignal(w)
  \/ \E w \in 1..Len(cluster.workers), cause \in ExitCauses : WorkerExit(w, cause)
  \/ MasterOnExit

\* the master's event loop handles every exit event it is sent
SpecCluster == Init /\ [][NextCluster]_vars /\ WF_vars(MasterOnExit)

\* the pages' pay buttons, from the click to the capture
NextClient ==
  \/ \E input \in ClickTexts \cup {<<>>} : TypeAmount(input)
  \/ \E ch \in ClickChoices : PayClick(ch[1], ch[2])
  \/ \E c \in 1..Len(clicks) : ValidateResume(c)
  \/ \E c \in 1..Len(clicks) : CreateOrder(c)
  \/ \E c \in 1..Len(clicks) : Approve(c)

SpecClient == Init /\ [][NextClient]_vars

\* the custom-amount validator on its own
NextAmounts == \E raw \in AmountBodies : Receive("custom", raw)

SpecAmounts == Init /\ [][NextAmounts]_vars

\* the service lookup of a revision with a price floor, on its own
NextFloor ==
  \/ \E raw \in ServiceBodies : Receive("service_floor", raw)
  \/ \E i \in 1..Len(reqs) : DbSelect(i)
  \/ \E i \in 1..Len(reqs) : DbFail(i)
  \/ \E i \in 1..Len(reqs) : Resume(i)

SpecFloor == Init /\ [][NextFloor]_vars

----------------------------------------------------------------------------
(* Vocabulary of the properties                                             *)

SaveReqs == {i \in 1..Len(reqs) : reqs[i].route = "save"}

Responded(i) == reqs[i].pc = "responded"

\* the rows the INSERT of request i made
RowsOf(i) == {k \in 1..Len(rows) : insertedBy[k] = i}

\* the notifications made for request i
MailsOf(i) == {m \in 1..Len(mails) : mails[m].req = i}

\* what the running revision's validator chain makes of a body
ChainOf(raw) ==
  IF rev = "hardened" THEN SaveChainHardened(raw) ELSE SaveChainLegacy(raw)

FailsValidation(raw) == ChainOf(raw).errors # {}

TxColumns == {"transaction_id", "payer_name", "payer_email", "amount",
              "currency", "payment_status", "service_type"}

\* a validation error as either revision words it
IsValidationError(resp) ==
  /\ resp.status = 400
  /\ \/ resp.shape = "envelope" /\ resp.code = "VALIDATION_ERROR"
     \/ resp.shape = "errors" /\ resp.errors # {}

\* the fixed, generic answer to a storage failure as either revision words it
IsGenericInternalError(resp) ==
  /\ resp.status = 500
  /\ \/ /\ rev = "hardened" /\ resp.shape = "envelope"
        /\ resp.code = "INTERNAL_ERROR"
        /\ resp.message = "An unexpected error occurred"
     \/ /\ rev = "legacy" /\ resp.shape = "flat"
        /\ resp.message = "Database error"

IsSaved(resp) == resp.status = 200 /\ resp.shape = "saved"

----------------------------------------------------------------------------
(* C1: a save-transaction request with a field that fails validation is    *)
(* answered with a validation error, never gets as far as the INSERT, and   *)
(* leaves no row in the transactions table.                                 *)
C1_InvalidNeverStored ==
  \A i \in SaveReqs :
    FailsValidation(reqs[i].raw) =>
      /\ Responded(i)
      /\ IsValidationError(reqs[i].resp)
      /\ RowsOf(i) = {}
      /\ reqs[i].result = <<>> /\ reqs[i].dberr = ""

\* each of the five checks has rejected some request, which was answered
C1_Witness ==
  \E i \in SaveReqs :
    /\ FailsValidation(reqs[i].raw) /\ Responded(i)
    /\ \E e \in reqs[i].errors : e.param = "currency"

(* C2 as stated: with UNIQUE(transaction_id), of two valid requests with    *)
(* the same transaction_id that the storage layer could be reached for,     *)
(* exactly one is answered with success, the other with a distinct,         *)
(* non-generic error such as DUPLICATE_TRANSACTION, and the table never     *)
(* holds two rows with that transaction_id.                                 *)
SameTxPair(i, j) ==
  /\ i # j
  /\ reqs[i].errors = {} /\ reqs[j].errors = {}
  /\ reqs[i].body.transaction_id = reqs[j].body.transaction_id
  /\ Responded(i) /\ Responded(j)
  /\ reqs[i].dberr # ConnectionError /\ reqs[j].dberr # ConnectionError

CaptureThrough(c) == c.req = 0 \/ Responded(c.req)

C3_ExactlyOnePerCapture ==
  \A k \in 1..Len(captures) :
    CaptureThrough(captures[k]) =>
      Cardinality(RowsWithTx(rows, captures[k].txid)) = 1

(* C4: without UNIQUE(transaction_id) nothing deduplicates: every valid     *)
(* request whose INSERT the storage layer ran adds a row of its own and is  *)
(* answered with success, however many rows already carry its              *)
(* transaction_id.                                                          *)
C4_NoDeduplication ==
  ~uniqueTx =>
    \A i \in SaveReqs :
      (/\ ~FailsValidation(reqs[i].raw)
       /\ Responded(i)
       /\ reqs[i].dberr # ConnectionError) =>
        /\ IsSaved(reqs[i].resp)
        /\ Cardinality(RowsOf(i)) = 1
        /\ \A k \in RowsOf(i) :
             rows[k].transaction_id
               = PgParam(ChainOf(reqs[i].raw).body.transaction_id)

\* two requests with one transaction_id, both answered with success, two rows
C4_Witness ==
  /\ ~uniqueTx
  /\ \E i, j \in SaveReqs :
       /\ i # j /\ IsSaved(reqs[i].resp) /\ IsSaved(reqs[j].resp)
       /\ reqs[i].body.transaction_id = reqs[j].body.transaction_id
       /\ Cardinality(RowsWithTx(rows, PgParam(reqs[i].body.transaction_id))) = 2

(* C5: a save-transaction request that passes validation and whose INSERT   *)
(* succeeds adds exactly one row; each of its seven columns holds the       *)
(* sanitized value of the field as the driver binds it (a missing optional  *)
(* field as NULL), and the success response carries that stored row with    *)
(* its id and created_at.                                                   *)
C5_StoredRowIsSanitizedInput ==
  \A i \in SaveReqs :
    reqs[i].pc \in {"db_ok", "responded"} /\ reqs[i].dberr = "" /\ reqs[i].errors = {} =>
      /\ Cardinality(RowsOf(i)) = 1
      /\ \A k \in RowsOf(i) :
           /\ \A f \in TxColumns :
                rows[k][f] = PgParam(ChainOf(reqs[i].raw).body[f])
           /\ rows[k].id = k /\ rows[k].created_at = k
           /\ Responded(i) =>
                IsSaved(reqs[i].resp) /\ reqs[i].resp.transaction = <<rows[k]>>

\* a stored row whose payer_name was escaped and whose service_type was
\* trimmed and escaped, sent back in the success response
C5_Witness ==
  \E i \in SaveReqs :
    /\ IsSaved(reqs[i].resp)
    /\ \E k \in RowsOf(i) :
         /\ rows[k].payer_name = <<"&","l","t",";","b","&","g","t",";">>
         /\ rows[k].service_type = <<"a","&","a","m","p",";","b">>
         /\ reqs[i].raw.payer_name = <<"<","b",">">>
         /\ reqs[i].resp.transaction = <<rows[k]>>

(* C6: transporter.sendMail is never called for a request before that       *)
(* request's success response has been sent.                                *)
C6_ResponseBeforeSend ==
  \A m \in 1..Len(mails) :
    mails[m].state \in {"sending", "sent", "failed"} =>
      ~mails[m].invokedBeforeResponse

(* C7: whatever becomes of the notification, the request it belongs to      *)
(* keeps its success response and its stored row, unchanged; a failed send  *)
(* leaves one error line in the log.                                        *)
C7_MailOutcomeStaysLocal ==
  \A m \in 1..Len(mails) :
    mails[m].state \in {"sent", "failed"} =>
      LET i == mails[m].req
      IN  /\ IsSaved(reqs[i].resp)
          /\ Cardinality(RowsOf(i)) = 1
          /\ \A k \in RowsOf(i) : reqs[i].resp.transaction = <<rows[k]>>
          /\ mails[m].state = "failed" =>
               [level |-> "error", msg |-> "Error sending confirmation email",
                detail |-> "mail transport error", req |-> i] \in logs

\* a send that failed, behind a success response and a stored row
C7_Witness ==
  \E m \in 1..Len(mails) :
    /\ mails[m].state = "failed"
    /\ IsSaved(reqs[mails[m].req].resp)
    /\ RowsOf(mails[m].req) # {}

(* C8: a request has a notification exactly when its INSERT succeeded:      *)
(* once a request is answered it has one notification if it stored a row    *)
(* and none otherwise, no request has one before its INSERT succeeded, and  *)
(* the recipient is the payer_email value that was bound to the INSERT.     *)
C8_MailIffInserted ==
  \A i \in 1..Len(reqs) :
    /\ MailsOf(i) # {} => RowsOf(i) # {}
    /\ Responded(i) =>
         Cardinality(MailsOf(i)) = IF RowsOf(i) # {} THEN 1 ELSE 0
    /\ \A m \in MailsOf(i) : \A k \in RowsOf(i) :
         /\ PgParam(mails[m].to) = rows[k].payer_email
         /\ mails[m].to = ChainOf(reqs[i].raw).body.payer_email

\* a notification addressed to the normalized form of the address that was sent
C8_Witness ==
  \E i \in SaveReqs : \E m \in MailsOf(i) :
    /\ Responded(i)
    /\ mails[m].to = <<"a","b","@","g","m","a","i","l",".","c","o","m">>
    /\ reqs[i].raw.payer_email # mails[m].to

(* C9: a request whose query the storage layer rejected (unreachable, or    *)
(* the unique constraint) is answered with status 500 and the fixed generic *)
(* error of its revision; no response ever carries a storage error's text,  *)
(* the text goes to the log, and the rejected INSERT leaves no row.         *)
C9_StorageFailureIsGeneric ==
  /\ \A i \in 1..Len(reqs) :
       /\ reqs[i].resp.message \notin StorageErrors
       /\ reqs[i].resp.code \notin StorageErrors
       /\ Responded(i) /\ reqs[i].dberr # "" =>
            /\ IsGenericInternalError(reqs[i].resp)
            /\ RowsOf(i) = {}
            /\ reqs[i].resp.transaction = <<>>
            /\ \E l \in logs : l.level = "error" /\ l.detail = reqs[i].dberr /\ l.req = i

\* a validate-service request and a save-transaction request, both answered
\* after the storage layer rejected their query
C9_Witness ==
  /\ \E i \in SaveReqs :
       Responded(i) /\ reqs[i].dberr # "" /\ reqs[i].resp.status = 500
  /\ \E i \in 1..Len(reqs) :
       /\ reqs[i].route = "service" /\ Responded(i)
       /\ reqs[i].dberr = ConnectionError /\ reqs[i].resp.status = 500

(* C10: a save-transaction request without payer_email is answered with the *)
(* code VALIDATION_ERROR and a body that carries a payer_email-scoped       *)
(* message.                                                                 *)
C10_FieldDetailInResponse ==
  \A i \in SaveReqs :
    Responded(i) /\ reqs[i].raw.payer_email = Undefined =>
      /\ reqs[i].resp.code = "VALIDATION_ERROR"
      /\ \E e \in reqs[i].resp.details \cup reqs[i].resp.errors :
           e.param = "payer_email"

(* C11: in every reachable state every row of transactions has a non-empty  *)
(* transaction_id, a non-empty payer_name, a payer_email that is a valid    *)
(* address, a numeric amount, and a currency that is NULL or exactly three  *)
(* characters long, all as stored.                                          *)
C11_StoredRowsWellFormed ==
  \A k \in 1..Len(rows) :
    /\ rows[k].transaction_id # Null /\ notEmpty(rows[k].transaction_id)
    /\ rows[k].payer_name # Null /\ notEmpty(rows[k].payer_name)
    /\ rows[k].payer_email # Null /\ isEmail(rows[k].payer_email)
    /\ rows[k].amount # Null /\ isNumeric(rows[k].amount)
    /\ rows[k].currency = Null \/ isLength3(rows[k].currency)

\* requests to POST /api/validate-service
ServiceReqs == {i \in 1..Len(reqs) : reqs[i].route = "service"}

\* the catalog entries a name stands for once blanks around it and letter
\* case are set aside
CatalogMatches(name) ==
  {k \in 1..Len(services) : ToLower(trim(StrOf(name))) = ToLower(services[k].name)}

(* C12: a validate-service request whose name is a catalog name in any      *)
(* letter case, with or without blanks around it, is answered with that     *)
(* entry's canonical name and price.                                        *)
C12_CaseAndBlankInsensitive ==
  \A i \in ServiceReqs :
    Responded(i) /\ reqs[i].dberr = "" =>
      \A k \in CatalogMatches(reqs[i].raw.name) :
        /\ reqs[i].resp.status = 200
        /\ reqs[i].resp.service =
             <<[name |-> services[k].name, price |-> services[k].price]>>

FloorReqs == {i \in 1..Len(reqs) : reqs[i].route = "service_floor"}

(* C14: with the price floor of 300 active, a validate-service request      *)
(* whose lookup matched a service priced below the floor is answered with   *)
(* PRICE_TOO_LOW and never with a success response carrying that price.     *)
C14_BelowFloorRefused ==
  \A i \in FloorReqs :
    (/\ Responded(i) /\ reqs[i].result # <<>>
     /\ reqs[i].result[1].price < PriceFloor) =>
      /\ reqs[i].resp.code = "PRICE_TOO_LOW"
      /\ reqs[i].resp.status = 400
      /\ reqs[i].resp.shape = "envelope"
      /\ reqs[i].resp.service = <<>>

\* Basic Service, priced 100, was matched and refused
C14_Witness ==
  \E i \in FloorReqs :
    /\ Responded(i)
    /\ reqs[i].result = <<[name |-> BasicService, price |-> 100]>>
    /\ reqs[i].resp.code = "PRICE_TOO_LOW"

\* requests to POST /api/validate-custom
CustomReqs == {i \in 1..Len(reqs) : reqs[i].route = "custom"}

\* a text of digits, a point, and exactly two more digits
TwoFractionDigits(t) ==
  /\ Len(t) >= 4 /\ t[Len(t) - 2] = "."
  /\ \A j \in (1..Len(t)) \ {Len(t) - 2} : t[j] \in Digits

(* C15: the custom-amount validator answers VALIDATION_ERROR to an amount   *)
(* that is not a number or not above zero, AMOUNT_TOO_LOW to one above zero *)
(* and below 50, and to one of 50 or more the amount written with exactly   *)
(* two fractional digits: 75.5 gives "75.50".                               *)
C15_AmountClassified ==
  \A i \in CustomReqs :
    LET n == Number(ReplaceComma(StrOf(reqs[i].raw.amount)))
        blank == trim(StrOf(reqs[i].raw.amount)) = <<>>
        resp == reqs[i].resp
    IN  /\ Responded(i)
        /\ (blank \/ n.nan \/ n.h <= 0) =>
             resp.status = 400 /\ resp.code = "VALIDATION_ERROR" /\ resp.amount = <<>>
        /\ (~blank /\ ~n.nan /\ 0 < n.h /\ n.h < 5000) =>
             resp.status = 400 /\ resp.code = "AMOUNT_TOO_LOW" /\ resp.amount = <<>>
        /\ (~blank /\ ~n.nan /\ n.h >= 5000) =>
             /\ resp.status = 200 /\ resp.code = ""
             /\ TwoFractionDigits(resp.amount)
             /\ Number(resp.amount) = n
        /\ reqs[i].raw.amount = <<"7","5",".","5">> =>
             resp.amount = <<"7","5",".","5","0">>
        /\ reqs[i].raw.amount \in {<<"a","b","c">>, <<"1","2","a">>, <<"0">>, <<"-","5">>} =>
             resp.code = "VALIDATION_ERROR"
        /\ reqs[i].raw.amount \in {<<"4","9",".","9","9">>, <<"0",".","0","1">>} =>
             resp.code = "AMOUNT_TOO_LOW"

\* 75.5 was answered with "75.50", and an amount of zero was refused
C15_Witness ==
  /\ \E i \in CustomReqs :
       reqs[i].raw.amount = <<"7","5",".","5">>
         /\ reqs[i].resp.amount = <<"7","5",".","5","0">>
  /\ \E i \in CustomReqs :
       reqs[i].raw.amount = <<"0">> /\ reqs[i].resp.code = "VALIDATION_ERROR"

\* how a click ended: nothing happened, the server refused the amount, or
\* the PayPal button was rendered
Outcome(c) ==
  IF c.state \in {"rendered", "cleared", "ordered", "captured"}
  THEN "accepted" ELSE c.state

(* C16: on every path that takes a custom amount, an amount typed with a    *)
(* comma ends as the same amount typed with a point does: the same outcome, *)
(* the same amount sent to validation, the same amount in the order.        *)
C16_CommaAsPoint ==
  \A a, b \in 1..Len(clicks) :
    (/\ clicks[a].flow = clicks[b].flow
     /\ clicks[a].flow # "setupBuyButtonsFlow"
     /\ clicks[b].input = ReplaceComma(clicks[a].input)
     /\ clicks[a].state \notin {"validating", "failed"}
     /\ clicks[b].state \notin {"validating", "failed"}) =>
      /\ Outcome(clicks[a]) = Outcome(clicks[b])
      /\ clicks[a].sent = clicks[b].sent
      /\ clicks[a].value = clicks[b].value

(* C19: an order is created only for a click whose price the server         *)
(* confirmed, a record-transaction call is made only for a capture, and     *)
(* every capture has its record-transaction call.                           *)
C19_ValidateThenPayThenRecord ==
  /\ \A c \in 1..Len(clicks) :
       clicks[c].state \in {"ordered", "captured"} =>
         /\ clicks[c].req # 0
         /\ reqs[clicks[c].req].route \in {"custom", "service", "service_floor"}
         /\ reqs[clicks[c].req].resp.status = 200
  /\ \A i \in SaveReqs : \E k \in 1..Len(captures) : captures[k].req = i
  /\ \A k \in 1..Len(captures) :
       captures[k].req \in SaveReqs

\* the codes of the error taxonomy
ErrorCodes ==
  {"VALIDATION_ERROR", "SERVICE_NOT_FOUND", "PRICE_TOO_LOW", "AMOUNT_TOO_LOW",
   "MISSING_PAYPAL_CLIENT_ID", "INTERNAL_ERROR", "DATABASE_ERROR"}

(* C17: every error response has the envelope {success: false, error:       *)
(* {code, message, ...}} with a code of the taxonomy; no error is answered  *)
(* in another shape.                                                        *)
C17_UniformErrorEnvelope ==
  \A i \in 1..Len(reqs) :
    Responded(i) /\ reqs[i].resp.status >= 400 =>
      /\ reqs[i].resp.shape = "envelope"
      /\ reqs[i].resp.code \in ErrorCodes
      /\ reqs[i].resp.message # ""

\* the body that sends the stored fields of a row again; a NULL column is
\* left out
Resubmitted(row) ==
  [f \in Fields |->
     IF f \in TxColumns /\ row[f] # Null THEN row[f] ELSE Undefined]

(* C18: the sanitizer of record-transaction leaves an already sanitized     *)
(* value as it is: sending the stored fields of a row again passes the      *)
(* checks and would store fields equal to the ones sent.                    *)
C18_SanitizerIdempotent ==
  \A k \in 1..Len(rows) :
    LET c == ChainOf(Resubmitted(rows[k]))
    IN  /\ c.errors = {}
        /\ \A f \in TxColumns : PgParam(c.body[f]) = rows[k][f]

(* C20: whatever request is served, of any route and with any outcome, the  *)
(* rows the transactions table held before the step are still there after   *)
(* it, in place and with the same values; the table only grows at its end,  *)
(* and a row has no column that could tell a further state.                 *)
C20_AppendOnly ==
  [][/\ Len(rows') >= Len(rows)
     /\ \A k \in 1..Len(rows) : rows'[k] = rows[k]
     /\ \A k \in 1..Len(rows') :
          DOMAIN rows'[k] = TxColumns \cup {"id", "created_at"}]_vars

\* a stored row, and a request that arrived after the row's own and was
\* refused or failed
C20_Witness ==
  \E i, j \in 1..Len(reqs) :
    /\ i < j /\ RowsOf(i) # {}
    /\ Responded(j) /\ reqs[j].resp.status >= 400
    /\ \E k \in RowsOf(i) : rows[k] = reqs[i].result[1]

(* C21: when more than one row of the services table matches the requested  *)
(* name case-insensitively, validate-service answers every call for that    *)
(* name with the same service, the match with the lowest id, whatever       *)
(* order the table yields its rows in.                                      *)
C21_DeterministicTieBreak ==
  \A i \in ServiceReqs :
    LET hits == ServiceMatches(catalog, trim(StrOf(reqs[i].raw.name)))
    IN  (/\ rev = "hardened" /\ Responded(i) /\ reqs[i].dberr = ""
         /\ Cardinality(hits) > 1) =>
          /\ reqs[i].resp.service =
               <<[name |-> catalog[Min(hits)].name,
                  price |-> catalog[Min(hits)].price]>>
          /\ \A j \in ServiceReqs :
               (/\ Responded(j) /\ reqs[j].dberr = ""
                /\ ToLower(trim(StrOf(reqs[j].raw.name)))
                     = ToLower(trim(StrOf(reqs[i].raw.name)))) =>
                  reqs[j].resp.service = reqs[i].resp.service

(* C22: provided the storage layer settles every query, every               *)
(* validate-service and record-transaction request is answered in the end,  *)
(* on every path and whatever the notification does, and an answer once     *)
(* given is never replaced by another.                                      *)
C22_AnsweredExactlyOnce ==
  /\ \A i \in 1..MaxInputReqs :
       (Len(reqs) >= i) ~>
         (Len(reqs) >= i /\ Responded(i) /\ reqs[i].resp.status # 0)
  /\ [][\A i \in 1..Len(reqs) : Responded(i) => reqs'[i] = reqs[i]]_vars

\* a request answered with success while its notification has not been
\* handed to the transport
C22_Witness ==
  \E i \in SaveReqs : \E m \in MailsOf(i) :
    /\ Responded(i) /\ reqs[i].resp.status = 200
    /\ mails[m].state = "scheduled"

(* C23: a record-transaction payload whose amount passes the numeric check  *)
(* is stored whatever the amount's sign or size, zero and negative amounts  *)
(* included, whether or not a validate-service or validate-custom call      *)
(* ever approved it.                                                        *)
C23_RecordedWithoutApproval ==
  \A i \in SaveReqs :
    (/\ [reqs[i].raw EXCEPT !.amount = Base.amount] = Base
     /\ isNumeric(StrOf(reqs[i].raw.amount))
     /\ Responded(i) /\ reqs[i].dberr = "") =>
      /\ IsSaved(reqs[i].resp)
      /\ Cardinality(RowsOf(i)) = 1
      /\ \A k \in RowsOf(i) : rows[k].amount = reqs[i].raw.amount

\* an amount of -5 is stored, and no validation request was ever made
C23_Witness ==
  \E i \in SaveReqs :
    /\ reqs[i].raw.amount = <<"-","5">>
    /\ IsSaved(reqs[i].resp)
    /\ \E k \in RowsOf(i) : rows[k].amount = <<"-","5">>
    /\ \A j \in 1..Len(reqs) : reqs[j].route = "save"

\* the workers that have not ended, and those that have
LiveWorkers ==
  {w \in 1..Len(cluster.workers) : cluster.workers[w] \in {"running", "closing"}}

DeadWorkers == {w \in 1..Len(cluster.workers) : cluster.workers[w] \in ExitCauses}

(* C24: the master starts numCPUs workers and forks exactly one worker for  *)
(* each worker exit it handles, whatever the exit's code or signal, a       *)
(* worker's own graceful shutdown included; so whenever exits are waiting   *)
(* to be handled the number of live workers comes back to numCPUs, and the  *)
(* master never runs the server code.                                       *)
C24_OneReplacementPerExit ==
  /\ [](Len(cluster.workers) - NumCPUs
          = Cardinality(DeadWorkers) - Len(cluster.exitEvents))
  /\ [](Cardinality(LiveWorkers) + Len(cluster.exitEvents) = NumCPUs)
  /\ [](~cluster.masterListens)
  /\ (cluster.exitEvents # <<>>) ~> (Cardinality(LiveWorkers) = NumCPUs)

\* a worker that shut itself down on a signal has been replaced
C24_Witness ==
  /\ cluster.exitEvents = <<>>
  /\ \E w \in DeadWorkers : cluster.workers[w] = "exit0"
  /\ Len(cluster.workers) > NumCPUs
  /\ Cardinality(LiveWorkers) = NumCPUs

\* the clicks handlePaymentClick took
PageClicks == {c \in 1..Len(clicks) : clicks[c].flow = "initPaymentHandlers"}

\* the save-transaction calls made for a capture
SaveCalls(k) ==
  {i \in SaveReqs :
     reqs[i].raw = saveTransaction(CaptureDetails(captures[k].txid))}

=============================================================================
